---- MODULE Spec2Model ----
(***************************************************************************)
(* A model of wcwidth.py: the column width of a Unicode character          *)
(* (wcwidth), of a string (wcswidth), their CJK-legacy variants            *)
(* (wcwidth_cjk, wcswidth_cjk) and the binary search in the interval       *)
(* tables of East Asian Ambiguous characters (_bisearch).                  *)
(*                                                                         *)
(* A unicode string is a sequence of code points; a character is a string  *)
(* of length 1.  Where the code mixes Python types (an int compared with a *)
(* unicode literal, a limit that is an int or None), values are tagged     *)
(* with their Python type.                                                 *)
(***************************************************************************)
EXTENDS Integers, Sequences, FiniteSets, TLC

VARIABLES
    unidata,    \* the Unicode database behind unicodedata.combining
    pc,         \* "idle", the function whose loop is running, or "done"
    fn,         \* the function the caller called
    unichar,    \* argument of wcwidth / wcwidth_cjk: a 1-character string
    ucs,        \* argument of _bisearch: a code point
    table,      \* argument of _bisearch: an interval table
    lbound,     \* _bisearch local
    ubound,     \* _bisearch local
    pwcs,       \* argument of wcswidth / wcswidth_cjk: a string
    n,          \* argument of wcswidth: an int or None
    chars,      \* what is left of the sequence the for loop iterates
    width,      \* wcswidth / wcswidth_cjk local
    ret         \* the returned value, meaningful when pc = "done"

vars == <<unidata, pc, fn, unichar, ucs, table, lbound, ubound,
          pwcs, n, chars, width, ret>>

\* the longest string passed to wcswidth / wcswidth_cjk
MaxLen == 3

----------------------------------------------------------------------------
\* Python values whose type the code depends on

PyNone == [type |-> "NoneType"]

PyInt(i) == [type |-> "int", val |-> i]

PyUnicode(s) == [type |-> "unicode", val |-> s]

\* Python's ==: values of different types (an int and a unicode string, an
\* int and None) are never equal
py_eq(a, b) ==
    /\ a.type = b.type
    /\ \/ a.type = "NoneType"
       \/ a.val = b.val

\* ord(c) of a 1-character string
ord(c) == c[1]

\* seq[slice(0, end)]: end None takes everything, a negative end counts
\* from the back, an end past the last element is clipped
py_slice(seq, end) ==
    IF py_eq(end, PyNone) THEN seq
    ELSE IF end.val < 0
         THEN SubSeq(seq, 1, IF Len(seq) + end.val < 0 THEN 0 ELSE Len(seq) + end.val)
         ELSE SubSeq(seq, 1, IF end.val > Len(seq) THEN Len(seq) ELSE end.val)

----------------------------------------------------------------------------
\* unicodedata.combining: the canonical combining class of a character, 0
\* for a character that is not a combining mark.  The class of a code point
\* is fixed once assigned, but which code points are assigned depends on
\* the Unicode version of the interpreter: U+1AB0 is a mark (class 230) from
\* Unicode 7.0 on and unassigned (class 0) before.

UnicodeData ==
    { (\h0301 :> 230) @@ (\h302A :> 218) @@ (\h3099 :> 8) @@ (\h1AB0 :> cls)
        : cls \in {0, 230} }

combining(c) ==
    IF ord(c) \in DOMAIN unidata THEN unidata[ord(c)] ELSE 0

----------------------------------------------------------------------------
\* _bisearch(ucs, table): binary search in an interval table.  Python
\* indexes from 0, a TLA+ sequence from 1: table[i][0] is table[i+1][1] and
\* table[i][1] is table[i+1][2].

\* lbound, ubound and the early return before the loop
bisearch_entry(u, t) ==
    LET lb == 0
        ub == Len(t) - 1
    IN  IF u < t[0 + 1][1] \/ u > t[ub + 1][2]
        THEN [pc |-> "return", lbound |-> lb, ubound |-> ub, ret |-> 0]
        ELSE [pc |-> "while", lbound |-> lb, ubound |-> ub, ret |-> 0]

\* bisearch_body with >= for >: the high end of an interval is taken to lie
\* above it
bisearch_body_high_excluded(u, t, lb, ub) ==
    IF ub >= lb
    THEN LET mid == (lb + ub) \div 2
         IN  IF u >= t[mid + 1][2]
             THEN [pc |-> "while", lbound |-> mid + 1, ubound |-> ub, ret |-> 0]
             ELSE IF u < t[mid + 1][1]
             THEN [pc |-> "while", lbound |-> lb, ubound |-> mid - 1, ret |-> 0]
             ELSE [pc |-> "return", lbound |-> lb, ubound |-> ub, ret |-> 1]
    ELSE [pc |-> "return", lbound |-> lb, ubound |-> ub, ret |-> 0]

\* one test of the while condition and, when it holds, one run of the body
bisearch_body(u, t, lb, ub) ==
    IF ub >= lb
    THEN LET mid == (lb + ub) \div 2
         IN  IF u > t[mid + 1][2]
             THEN [pc |-> "while", lbound |-> mid + 1, ubound |-> ub, ret |-> 0]
             ELSE IF u < t[mid + 1][1]
             THEN [pc |-> "while", lbound |-> lb, ubound |-> mid - 1, ret |-> 0]
             ELSE [pc |-> "return", lbound |-> lb, ubound |-> ub, ret |-> 1]
    ELSE [pc |-> "return", lbound |-> lb, ubound |-> ub, ret |-> 0]

RECURSIVE bisearch_while(_, _, _, _)
bisearch_while(u, t, lb, ub) ==
    LET s == bisearch_body(u, t, lb, ub)
    IN  IF s.pc = "return" THEN s.ret
        ELSE bisearch_while(u, t, s.lbound, s.ubound)

_bisearch(u, t) ==
    LET e == bisearch_entry(u, t)
    IN  IF e.pc = "return" THEN e.ret
        ELSE bisearch_while(u, t, e.lbound, e.ubound)

----------------------------------------------------------------------------
\* wcwidth(unichar)

\* east_asian_wide without the exception for the 64 hexagrams
east_asian_wide_with_hexagrams(u) ==
    /\ u >= \h1100
    /\ \/ u <= \h115f
       \/ u = \h2329 \/ u = \h232a
       \/ /\ u >= \h2e80 /\ u <= \ha4cf
          /\ u # \h303f
       \/ (u >= \hac00 /\ u <= \hd7a3)
       \/ (u >= \hf900 /\ u <= \hfaff)
       \/ (u >= \hfe10 /\ u <= \hfe19)
       \/ (u >= \hfe30 /\ u <= \hfe6f)
       \/ (u >= \hff00 /\ u <= \hff60)
       \/ (u >= \hffe0 /\ u <= \hffe6)
       \/ (u >= \h20000 /\ u <= \h2fffd)
       \/ (u >= \h30000 /\ u <= \h3fffd)

\* the disjunction that adds 1 to the width
east_asian_wide(u) ==
    /\ u >= \h1100
    /\ \/ u <= \h115f
       \/ u = \h2329 \/ u = \h232a
       \/ /\ u >= \h2e80 /\ u <= \ha4cf
          /\ u # \h303f
          /\ ~(u >= \h4dc0 /\ u <= \h4dff)
       \/ (u >= \hac00 /\ u <= \hd7a3)
       \/ (u >= \hf900 /\ u <= \hfaff)
       \/ (u >= \hfe10 /\ u <= \hfe19)
       \/ (u >= \hfe30 /\ u <= \hfe6f)
       \/ (u >= \hff00 /\ u <= \hff60)
       \/ (u >= \hffe0 /\ u <= \hffe6)
       \/ (u >= \h20000 /\ u <= \h2fffd)
       \/ (u >= \h30000 /\ u <= \h3fffd)

\* wcwidth with the 8-bit control test ending at 0x9f instead of 0xa0
wcwidth_c1_short(c) ==
    LET u == ord(c)
    IN  IF py_eq(PyInt(u), PyUnicode(<<0>>)) THEN 0
        ELSE IF u < 32 THEN -1
        ELSE IF u >= \h7f /\ u < \h9f THEN -1
        ELSE IF combining(c) # 0 THEN -1
        ELSE 1 + (IF east_asian_wide(u) THEN 1 ELSE 0)

wcwidth(c) ==
    LET u == ord(c)
    IN  IF py_eq(PyInt(u), PyUnicode(<<0>>)) THEN 0
        ELSE IF u < 32 THEN -1
        ELSE IF u >= \h7f /\ u < \ha0 THEN -1
        ELSE IF combining(c) # 0 THEN -1
        ELSE 1 + (IF east_asian_wide(u) THEN 1 ELSE 0)

----------------------------------------------------------------------------
\* wcswidth(pwcs, n)

\* the sequence the for loop iterates
wcswidth_chars(s, lim) ==
    LET end == IF ~py_eq(lim, PyNone) THEN PyInt(Len(s)) ELSE lim
    IN  py_slice(s, end)

\* wcswidth_body returning the width so far at a non-printable character
wcswidth_body_partial(w, char) ==
    LET wcw == wcwidth(char)
    IN  IF wcw < 0
        THEN [pc |-> "return", width |-> w, ret |-> w]
        ELSE [pc |-> "for", width |-> w + wcw, ret |-> 0]

\* the body of the for loop, for one character
wcswidth_body(w, char) ==
    LET wcw == wcwidth(char)
    IN  IF wcw < 0
        THEN [pc |-> "return", width |-> w, ret |-> -1]
        ELSE [pc |-> "for", width |-> w + wcw, ret |-> 0]

----------------------------------------------------------------------------
\* sorted list of non-overlapping intervals of East Asian Ambiguous
\* characters (wcwidth.py, _AMBIGUOUS)
_AMBIGUOUS == <<
    <<\h00A1, \h00A1>>, <<\h00A4, \h00A4>>, <<\h00A7, \h00A8>>,
    <<\h00AA, \h00AA>>, <<\h00AE, \h00AE>>, <<\h00B0, \h00B4>>,
    <<\h00B6, \h00BA>>, <<\h00BC, \h00BF>>, <<\h00C6, \h00C6>>,
    <<\h00D0, \h00D0>>, <<\h00D7, \h00D8>>, <<\h00DE, \h00E1>>,
    <<\h00E6, \h00E6>>, <<\h00E8, \h00EA>>, <<\h00EC, \h00ED>>,
    <<\h00F0, \h00F0>>, <<\h00F2, \h00F3>>, <<\h00F7, \h00FA>>,
    <<\h00FC, \h00FC>>, <<\h00FE, \h00FE>>, <<\h0101, \h0101>>,
    <<\h0111, \h0111>>, <<\h0113, \h0113>>, <<\h011B, \h011B>>,
    <<\h0126, \h0127>>, <<\h012B, \h012B>>, <<\h0131, \h0133>>,
    <<\h0138, \h0138>>, <<\h013F, \h0142>>, <<\h0144, \h0144>>,
    <<\h0148, \h014B>>, <<\h014D, \h014D>>, <<\h0152, \h0153>>,
    <<\h0166, \h0167>>, <<\h016B, \h016B>>, <<\h01CE, \h01CE>>,
    <<\h01D0, \h01D0>>, <<\h01D2, \h01D2>>, <<\h01D4, \h01D4>>,
    <<\h01D6, \h01D6>>, <<\h01D8, \h01D8>>, <<\h01DA, \h01DA>>,
    <<\h01DC, \h01DC>>, <<\h0251, \h0251>>, <<\h0261, \h0261>>,
    <<\h02C4, \h02C4>>, <<\h02C7, \h02C7>>, <<\h02C9, \h02CB>>,
    <<\h02CD, \h02CD>>, <<\h02D0, \h02D0>>, <<\h02D8, \h02DB>>,
    <<\h02DD, \h02DD>>, <<\h02DF, \h02DF>>, <<\h0391, \h03A1>>,
    <<\h03A3, \h03A9>>, <<\h03B1, \h03C1>>, <<\h03C3, \h03C9>>,
    <<\h0401, \h0401>>, <<\h0410, \h044F>>, <<\h0451, \h0451>>,
    <<\h2010, \h2010>>, <<\h2013, \h2016>>, <<\h2018, \h2019>>,
    <<\h201C, \h201D>>, <<\h2020, \h2022>>, <<\h2024, \h2027>>,
    <<\h2030, \h2030>>, <<\h2032, \h2033>>, <<\h2035, \h2035>>,
    <<\h203B, \h203B>>, <<\h203E, \h203E>>, <<\h2074, \h2074>>,
    <<\h207F, \h207F>>, <<\h2081, \h2084>>, <<\h20AC, \h20AC>>,
    <<\h2103, \h2103>>, <<\h2105, \h2105>>, <<\h2109, \h2109>>,
    <<\h2113, \h2113>>, <<\h2116, \h2116>>, <<\h2121, \h2122>>,
    <<\h2126, \h2126>>, <<\h212B, \h212B>>, <<\h2153, \h2154>>,
    <<\h215B, \h215E>>, <<\h2160, \h216B>>, <<\h2170, \h2179>>,
    <<\h2190, \h2199>>, <<\h21B8, \h21B9>>, <<\h21D2, \h21D2>>,
    <<\h21D4, \h21D4>>, <<\h21E7, \h21E7>>, <<\h2200, \h2200>>,
    <<\h2202, \h2203>>, <<\h2207, \h2208>>, <<\h220B, \h220B>>,
    <<\h220F, \h220F>>, <<\h2211, \h2211>>, <<\h2215, \h2215>>,
    <<\h221A, \h221A>>, <<\h221D, \h2220>>, <<\h2223, \h2223>>,
    <<\h2225, \h2225>>, <<\h2227, \h222C>>, <<\h222E, \h222E>>,
    <<\h2234, \h2237>>, <<\h223C, \h223D>>, <<\h2248, \h2248>>,
    <<\h224C, \h224C>>, <<\h2252, \h2252>>, <<\h2260, \h2261>>,
    <<\h2264, \h2267>>, <<\h226A, \h226B>>, <<\h226E, \h226F>>,
    <<\h2282, \h2283>>, <<\h2286, \h2287>>, <<\h2295, \h2295>>,
    <<\h2299, \h2299>>, <<\h22A5, \h22A5>>, <<\h22BF, \h22BF>>,
    <<\h2312, \h2312>>, <<\h2460, \h24E9>>, <<\h24EB, \h254B>>,
    <<\h2550, \h2573>>, <<\h2580, \h258F>>, <<\h2592, \h2595>>,
    <<\h25A0, \h25A1>>, <<\h25A3, \h25A9>>, <<\h25B2, \h25B3>>,
    <<\h25B6, \h25B7>>, <<\h25BC, \h25BD>>, <<\h25C0, \h25C1>>,
    <<\h25C6, \h25C8>>, <<\h25CB, \h25CB>>, <<\h25CE, \h25D1>>,
    <<\h25E2, \h25E5>>, <<\h25EF, \h25EF>>, <<\h2605, \h2606>>,
    <<\h2609, \h2609>>, <<\h260E, \h260F>>, <<\h2614, \h2615>>,
    <<\h261C, \h261C>>, <<\h261E, \h261E>>, <<\h2640, \h2640>>,
    <<\h2642, \h2642>>, <<\h2660, \h2661>>, <<\h2663, \h2665>>,
    <<\h2667, \h266A>>, <<\h266C, \h266D>>, <<\h266F, \h266F>>,
    <<\h273D, \h273D>>, <<\h2776, \h277F>>, <<\hE000, \hF8FF>>,
    <<\hFFFD, \hFFFD>>, <<\hF0000, \hFFFFD>>, <<\h100000, \h10FFFD>>
>>

\* the later table with its first new interval added at the end instead of
\* in its place
_AMBIGUOUS_appended == _AMBIGUOUS \o << <<\h2189, \h2189>> >>

\* the later snapshot of the same set (wcwidth.py, _AMBIGUOUS_TESTING_NEW)
_AMBIGUOUS_TESTING_NEW == <<
    <<\h00A1, \h00A1>>, <<\h00A4, \h00A4>>, <<\h00A7, \h00A8>>,
    <<\h00AA, \h00AA>>, <<\h00AE, \h00AE>>, <<\h00B0, \h00B4>>,
    <<\h00B6, \h00BA>>, <<\h00BC, \h00BF>>, <<\h00C6, \h00C6>>,
    <<\h00D0, \h00D0>>, <<\h00D7, \h00D8>>, <<\h00DE, \h00E1>>,
    <<\h00E6, \h00E6>>, <<\h00E8, \h00EA>>, <<\h00EC, \h00ED>>,
    <<\h00F0, \h00F0>>, <<\h00F2, \h00F3>>, <<\h00F7, \h00FA>>,
    <<\h00FC, \h00FC>>, <<\h00FE, \h00FE>>, <<\h0101, \h0101>>,
    <<\h0111, \h0111>>, <<\h0113, \h0113>>, <<\h011B, \h011B>>,
    <<\h0126, \h0127>>, <<\h012B, \h012B>>, <<\h0131, \h0133>>,
    <<\h0138, \h0138>>, <<\h013F, \h0142>>, <<\h0144, \h0144>>,
    <<\h0148, \h014B>>, <<\h014D, \h014D>>, <<\h0152, \h0153>>,
    <<\h0166, \h0167>>, <<\h016B, \h016B>>, <<\h01CE, \h01CE>>,
    <<\h01D0, \h01D0>>, <<\h01D2, \h01D2>>, <<\h01D4, \h01D4>>,
    <<\h01D6, \h01D6>>, <<\h01D8, \h01D8>>, <<\h01DA, \h01DA>>,
    <<\h01DC, \h01DC>>, <<\h0251, \h0251>>, <<\h0261, \h0261>>,
    <<\h02C4, \h02C4>>, <<\h02C7, \h02C7>>, <<\h02C9, \h02CB>>,
    <<\h02CD, \h02CD>>, <<\h02D0, \h02D0>>, <<\h02D8, \h02DB>>,
    <<\h02DD, \h02DD>>, <<\h02DF, \h02DF>>, <<\h0391, \h03A1>>,
    <<\h03A3, \h03A9>>, <<\h03B1, \h03C1>>, <<\h03C3, \h03C9>>,
    <<\h0401, \h0401>>, <<\h0410, \h044F>>, <<\h0451, \h0451>>,
    <<\h2010, \h2010>>, <<\h2013, \h2016>>, <<\h2018, \h2019>>,
    <<\h201C, \h201D>>, <<\h2020, \h2022>>, <<\h2024, \h2027>>,
    <<\h2030, \h2030>>, <<\h2032, \h2033>>, <<\h2035, \h2035>>,
    <<\h203B, \h203B>>, <<\h203E, \h203E>>, <<\h2074, \h2074>>,
    <<\h207F, \h207F>>, <<\h2081, \h2084>>, <<\h20AC, \h20AC>>,
    <<\h2103, \h2103>>, <<\h2105, \h2105>>, <<\h2109, \h2109>>,
    <<\h2113, \h2113>>, <<\h2116, \h2116>>, <<\h2121, \h2122>>,
    <<\h2126, \h2126>>, <<\h212B, \h212B>>, <<\h2153, \h2154>>,
    <<\h215B, \h215E>>, <<\h2160, \h216B>>, <<\h2170, \h2179>>,
    <<\h2189, \h2189>>, <<\h2190, \h2199>>, <<\h21B8, \h21B9>>,
    <<\h21D2, \h21D2>>, <<\h21D4, \h21D4>>, <<\h21E7, \h21E7>>,
    <<\h2200, \h2200>>, <<\h2202, \h2203>>, <<\h2207, \h2208>>,
    <<\h220B, \h220B>>, <<\h220F, \h220F>>, <<\h2211, \h2211>>,
    <<\h2215, \h2215>>, <<\h221A, \h221A>>, <<\h221D, \h2220>>,
    <<\h2223, \h2223>>, <<\h2225, \h2225>>, <<\h2227, \h222C>>,
    <<\h222E, \h222E>>, <<\h2234, \h2237>>, <<\h223C, \h223D>>,
    <<\h2248, \h2248>>, <<\h224C, \h224C>>, <<\h2252, \h2252>>,
    <<\h2260, \h2261>>, <<\h2264, \h2267>>, <<\h226A, \h226B>>,
    <<\h226E, \h226F>>, <<\h2282, \h2283>>, <<\h2286, \h2287>>,
    <<\h2295, \h2295>>, <<\h2299, \h2299>>, <<\h22A5, \h22A5>>,
    <<\h22BF, \h22BF>>, <<\h2312, \h2312>>, <<\h2460, \h24E9>>,
    <<\h24EB, \h254B>>, <<\h2550, \h2573>>, <<\h2580, \h258F>>,
    <<\h2592, \h2595>>, <<\h25A0, \h25A1>>, <<\h25A3, \h25A9>>,
    <<\h25B2, \h25B3>>, <<\h25B6, \h25B7>>, <<\h25BC, \h25BD>>,
    <<\h25C0, \h25C1>>, <<\h25C6, \h25C8>>, <<\h25CB, \h25CB>>,
    <<\h25CE, \h25D1>>, <<\h25E2, \h25E5>>, <<\h25EF, \h25EF>>,
    <<\h2605, \h2606>>, <<\h2609, \h2609>>, <<\h260E, \h260F>>,
    <<\h2614, \h2615>>, <<\h261C, \h261C>>, <<\h261E, \h261E>>,
    <<\h2640, \h2640>>, <<\h2642, \h2642>>, <<\h2660, \h2661>>,
    <<\h2663, \h2665>>, <<\h2667, \h266A>>, <<\h266C, \h266D>>,
    <<\h266F, \h266F>>, <<\h269E, \h269F>>, <<\h26BE, \h26BF>>,
    <<\h26C4, \h26CD>>, <<\h26CF, \h26E1>>, <<\h26E3, \h26E3>>,
    <<\h26E8, \h26FF>>, <<\h273D, \h273D>>, <<\h2757, \h2757>>,
    <<\h2776, \h277F>>, <<\h2B55, \h2B59>>, <<\h3248, \h324F>>,
    <<\hE000, \hF8FF>>, <<\hFFFD, \hFFFD>>, <<\h1F100, \h1F10A>>,
    <<\h1F110, \h1F12D>>, <<\h1F130, \h1F169>>, <<\h1F170, \h1F19A>>,
    <<\hF0000, \hFFFFD>>, <<\h100000, \h10FFFD>>
>>

----------------------------------------------------------------------------
\* wcwidth_cjk(ucs) and wcswidth_cjk(pwcs)

\* wcwidth_cjk with the table test inverted
wcwidth_cjk_inverted(c) ==
    IF _bisearch(ord(c), _AMBIGUOUS) = 0 THEN 2
    ELSE wcwidth(c)

wcwidth_cjk(c) ==
    IF _bisearch(ord(c), _AMBIGUOUS) # 0 THEN 2
    ELSE wcwidth(c)

\* wcswidth_cjk_body measuring with wcwidth instead of wcwidth_cjk
wcswidth_cjk_body_plain(w, char) ==
    LET wcw == wcwidth(char)
    IN  IF wcw < 0
        THEN [pc |-> "return", width |-> w, ret |-> -1]
        ELSE [pc |-> "for", width |-> w + wcw, ret |-> 0]

\* the body of the for loop, for one character
wcswidth_cjk_body(w, char) ==
    LET wcw == wcwidth_cjk(char)
    IN  IF wcw < 0
        THEN [pc |-> "return", width |-> w, ret |-> -1]
        ELSE [pc |-> "for", width |-> w + wcw, ret |-> 0]

----------------------------------------------------------------------------
\* The inputs the calls are made with

\* the code points at and next to every bound the classifier compares
\* with, the combining marks of the database, and the ends of the range
CodePoints ==
    { 0, 1, 31, 32, \h41, \h7e, \h7f, \h80, \h9f, \ha0, \ha1, \had,
      \h0300, \h0301, \h10ff, \h1100, \h115f, \h1160, \h11a8, \h11ff, \h1200,
      \h1ab0, \h200b, \h2328, \h2329, \h232a, \h232b,
      \h2e7f, \h2e80, \h302a, \h303e, \h303f, \h3040, \h3099,
      \h4dbf, \h4dc0, \h4dff, \h4e00, \ha4cf, \ha4d0,
      \habff, \hac00, \hd7a3, \hd7a4, \hf8ff, \hf900, \hfaff, \hfb00,
      \hfe0f, \hfe10, \hfe19, \hfe1a, \hfe2f, \hfe30, \hfe6f, \hfe70,
      \hfeff, \hff00, \hff60, \hff61, \hffdf, \hffe0, \hffe6, \hffe7,
      \hfffd, \h1ffff, \h20000, \h2fffd, \h2fffe, \h2ffff, \h30000,
      \h3fffd, \h3fffe, \h10fffd, \h10ffff }

\* for an interval table: the two ends of every interval and the code
\* points just outside them, so that every interval, every gap between two
\* intervals and both sides of the table are probed
Probes(t) ==
    { 0, \h10ffff } \cup
    UNION { { t[i][1] - 1, t[i][1], t[i][2], t[i][2] + 1 } : i \in 1..Len(t) }

Tables == { _AMBIGUOUS, _AMBIGUOUS_TESTING_NEW }

\* the characters of the strings: NUL, a C0 control, a letter, an
\* ambiguous-width character, a combining mark and a CJK ideograph
StrChars == { 0, 10, \h41, \ha1, \h0301, \h4e00 }

Strings == UNION { [1..len -> StrChars] : len \in 0..MaxLen }

Limits == { PyNone } \cup { PyInt(k) : k \in 0..MaxLen }

----------------------------------------------------------------------------
\* The module after import: the tables are built and nothing is running

Init ==
    /\ unidata \in UnicodeData
    /\ pc = "idle"
    /\ fn = "none"
    /\ unichar = << >>
    /\ ucs = 0
    /\ table = << >>
    /\ lbound = 0
    /\ ubound = 0
    /\ pwcs = << >>
    /\ n = PyNone
    /\ chars = << >>
    /\ width = 0
    /\ ret = 0

\* wcwidth(unichar), start to return
Call_wcwidth ==
    /\ pc = "idle"
    /\ \E u \in CodePoints :
         /\ unichar' = <<u>>
         /\ ret' = wcwidth(<<u>>)
    /\ fn' = "wcwidth"
    /\ pc' = "done"
    /\ UNCHANGED <<unidata, ucs, table, lbound, ubound, pwcs, n, chars, width>>

\* wcwidth_cjk(ucs), start to return
Call_wcwidth_cjk ==
    /\ pc = "idle"
    /\ \E u \in CodePoints \cup Probes(_AMBIGUOUS) :
         /\ unichar' = <<u>>
         /\ ret' = wcwidth_cjk(<<u>>)
    /\ fn' = "wcwidth_cjk"
    /\ pc' = "done"
    /\ UNCHANGED <<unidata, ucs, table, lbound, ubound, pwcs, n, chars, width>>

\* _bisearch(ucs, table) up to the while loop
Call_bisearch ==
    /\ pc = "idle"
    /\ \E t \in Tables : \E u \in Probes(t) :
         LET e == bisearch_entry(u, t)
         IN  /\ ucs' = u
             /\ table' = t
             /\ lbound' = e.lbound
             /\ ubound' = e.ubound
             /\ ret' = e.ret
             /\ pc' = IF e.pc = "return" THEN "done" ELSE "_bisearch"
    /\ fn' = "_bisearch"
    /\ UNCHANGED <<unidata, unichar, pwcs, n, chars, width>>

\* one iteration of the while loop of _bisearch, or its end
Step_bisearch ==
    /\ pc = "_bisearch"
    /\ LET s == bisearch_body(ucs, table, lbound, ubound)
       IN  /\ lbound' = s.lbound
           /\ ubound' = s.ubound
           /\ ret' = s.ret
           /\ pc' = IF s.pc = "return" THEN "done" ELSE "_bisearch"
    /\ UNCHANGED <<unidata, fn, unichar, ucs, table, pwcs, n, chars, width>>

\* wcswidth(pwcs, n) up to the for loop
Call_wcswidth ==
    /\ pc = "idle"
    /\ \E s \in Strings : \E lim \in Limits :
         /\ pwcs' = s
         /\ n' = lim
         /\ chars' = wcswidth_chars(s, lim)
    /\ width' = 0
    /\ fn' = "wcswidth"
    /\ pc' = "wcswidth"
    /\ UNCHANGED <<unidata, unichar, ucs, table, lbound, ubound, ret>>

\* one iteration of the for loop of wcswidth, or its end
Step_wcswidth ==
    /\ pc = "wcswidth"
    /\ IF chars = << >>
       THEN /\ ret' = width
            /\ pc' = "done"
            /\ UNCHANGED <<chars, width>>
       ELSE LET s == wcswidth_body(width, <<Head(chars)>>)
            IN  /\ width' = s.width
                /\ ret' = s.ret
                /\ chars' = Tail(chars)
                /\ pc' = IF s.pc = "return" THEN "done" ELSE "wcswidth"
    /\ UNCHANGED <<unidata, fn, unichar, ucs, table, lbound, ubound, pwcs, n>>

\* wcswidth_cjk(pwcs) up to the for loop
Call_wcswidth_cjk ==
    /\ pc = "idle"
    /\ \E s \in Strings :
         /\ pwcs' = s
         /\ chars' = s
    /\ width' = 0
    /\ fn' = "wcswidth_cjk"
    /\ pc' = "wcswidth_cjk"
    /\ UNCHANGED <<unidata, unichar, ucs, table, lbound, ubound, n, ret>>

\* one iteration of the for loop of wcswidth_cjk, or its end
Step_wcswidth_cjk ==
    /\ pc = "wcswidth_cjk"
    /\ IF chars = << >>
       THEN /\ ret' = width
            /\ pc' = "done"
            /\ UNCHANGED <<chars, width>>
       ELSE LET s == wcswidth_cjk_body(width, <<Head(chars)>>)
            IN  /\ width' = s.width
                /\ ret' = s.ret
                /\ chars' = Tail(chars)
                /\ pc' = IF s.pc = "return" THEN "done" ELSE "wcswidth_cjk"
    /\ UNCHANGED <<unidata, fn, unichar, ucs, table, lbound, ubound, pwcs, n>>

Next ==
    \/ Call_wcwidth
    \/ Call_wcwidth_cjk
    \/ Call_bisearch
    \/ Step_bisearch
    \/ Call_wcswidth
    \/ Step_wcswidth
    \/ Call_wcswidth_cjk
    \/ Step_wcswidth_cjk

Spec == Init /\ [][Next]_vars

----------------------------------------------------------------------------
\* What the results are compared with

\* c lies in an interval of t
InTable(c, t) == \E i \in 1..Len(t) : t[i][1] <= c /\ c <= t[i][2]

\* c is one of the code points documented as wide
InWideRanges(c) ==
    \/ c \in \h1100..\h115F
    \/ c \in {\h2329, \h232A}
    \/ c \in \h2E80..\hA4CF /\ c # \h303F /\ c \notin \h4DC0..\h4DFF
    \/ c \in \hAC00..\hD7A3
    \/ c \in \hF900..\hFAFF
    \/ c \in \hFE10..\hFE19
    \/ c \in \hFE30..\hFE6F
    \/ c \in \hFF00..\hFF60
    \/ c \in \hFFE0..\hFFE6
    \/ c \in \h20000..\h2FFFD
    \/ c \in \h30000..\h3FFFD

RECURSIVE Sum(_)
Sum(ws) == IF ws = << >> THEN 0 ELSE Head(ws) + Sum(Tail(ws))

\* -1 if any width is -1, the sum of the widths otherwise
TotalWidth(ws) ==
    IF \E i \in 1..Len(ws) : ws[i] = -1 THEN -1 ELSE Sum(ws)

Widths(s) == [i \in 1..Len(s) |-> wcwidth(<<s[i]>>)]

WidthsCjk(s) == [i \in 1..Len(s) |-> wcwidth_cjk(<<s[i]>>)]

\* low <= high in every interval, and every interval ends before the next
\* one starts
SortedDisjoint(t) ==
    /\ \A i \in 1..Len(t) : t[i][1] <= t[i][2]
    /\ \A i \in 1..(Len(t) - 1) : t[i][2] < t[i + 1][1]

----------------------------------------------------------------------------
\* C1: wcwidth of the null character (code point 0) is 0, not -1.
C1_NulIsZeroWidth ==
    (pc = "done" /\ fn = "wcwidth" /\ unichar = <<0>>) => ret = 0

\* C2: wcswidth(pwcs, n) with a limit 0 <= n <= len(pwcs) is the width of
\* the first n characters alone: characters at index >= n do not count.
C2_LimitIsHonoured ==
    (pc = "done" /\ fn = "wcswidth" /\ n.type = "int" /\ n.val <= Len(pwcs))
        => ret = TotalWidth(Widths(SubSeq(pwcs, 1, n.val)))

\* C3: wcswidth(pwcs) with no limit is -1 if any character of pwcs, at any
\* position, has wcwidth -1, and the sum of the characters' wcwidth
\* otherwise; never a partial sum, and 0 for the empty string.
C3_SumOrMinusOne ==
    (pc = "done" /\ fn = "wcswidth" /\ n = PyNone)
        => /\ ret = TotalWidth(Widths(pwcs))
           /\ pwcs = << >> => ret = 0

\* a non-printable character after a printable one: the sum so far is 1
C3_Witness ==
    /\ pc = "done" /\ fn = "wcswidth" /\ n = PyNone
    /\ pwcs = <<\h4e00, \h41, 10>>
    /\ ret = -1

\* C4: wcwidth_cjk(c) is 2 when c lies in an interval of _AMBIGUOUS (such as
\* U+00A1, whose wcwidth is 1) and wcwidth(c) when it lies in none.
C4_AmbiguousIsWide ==
    (pc = "done" /\ fn = "wcwidth_cjk")
        => /\ ret = IF InTable(ord(unichar), _AMBIGUOUS) THEN 2
                    ELSE wcwidth(unichar)
           /\ ord(unichar) = \h00A1 => ret = 2 /\ wcwidth(unichar) = 1

C4_Witness ==
    /\ pc = "done" /\ fn = "wcwidth_cjk"
    /\ unichar = <<\h00A1>>
    /\ ret = 2

C7_CjkSumOrMinusOne ==
    (pc = "done" /\ fn = "wcswidth_cjk")
        => /\ ret = TotalWidth(WidthsCjk(pwcs))
           /\ pwcs = <<\h00A1, \h0041>> => ret = 3

C7_Witness ==
    /\ pc = "done" /\ fn = "wcswidth_cjk"
    /\ pwcs = <<\h00A1, \h0041>>
    /\ ret = 3

\* C8: the Hangul Jamo medial vowels and final consonants, U+1160 to
\* U+11FF, have wcwidth 0.
C8_JamoIsZeroWidth ==
    (pc = "done" /\ fn = "wcwidth" /\ ord(unichar) \in \h1160..\h11FF)
        => ret = 0

\* C9: _bisearch on either table returns 1 exactly when an interval of the
\* table holds the code point, and 0 otherwise; it terminates, because the
\* index range lbound..ubound is never smaller than empty and shrinks
\* strictly with every iteration of the loop.
C9_BisearchCorrect ==
    /\ [](pc = "done" /\ fn = "_bisearch"
            => ret = IF InTable(ucs, table) THEN 1 ELSE 0)
    /\ [](pc = "_bisearch" => ubound - lbound >= -1)
    /\ [][pc = "_bisearch" /\ pc' = "_bisearch"
            => ubound' - lbound' < ubound - lbound]_vars

\* a code point in the gap between two intervals, after the loop ran dry
C9_Witness ==
    /\ pc = "done" /\ fn = "_bisearch"
    /\ table = _AMBIGUOUS
    /\ ucs = \h218F
    /\ ubound < lbound
    /\ ret = 0

\* C10: in both tables every interval has low <= high and ends strictly
\* before the next one starts.
C10_TablesSortedDisjoint ==
    /\ SortedDisjoint(_AMBIGUOUS)
    /\ SortedDisjoint(_AMBIGUOUS_TESTING_NEW)
    /\ fn = "_bisearch" => table \in Tables /\ SortedDisjoint(table)

\* an interval that only the later table has is found in it
C10_Witness ==
    /\ pc = "done" /\ fn = "_bisearch"
    /\ table = _AMBIGUOUS_TESTING_NEW
    /\ ucs = \h1F100
    /\ ret = 1

====
